---- MODULE Spec2Model ----
(***************************************************************************)
(* Model of vigenere.py: text normalisation, the letter <-> number maps,   *)
(* and Vigenere encryption and decryption over A..Z.                       *)
(*                                                                         *)
(* A character is represented by its Unicode code point, so ord() and      *)
(* chr() are the change of representation and a str is a sequence of code  *)
(* points.  Python's int is unbounded, so is the model's.                  *)
(***************************************************************************)
EXTENDS Integers, Sequences, FiniteSets, TLC

\* ------------------------------------------------------------------ bounds
MaxTextLen == 3
MaxKeyLen == 2
MaxN == 60
MaxTextLen9 == 2

\* ord('A')
ord_A == 65

\* string.ascii_uppercase: the code points of "ABCDEFGHIJKLMNOPQRSTUVWXYZ"
ascii_uppercase == [j \in 1..26 |-> 64 + j]

VARIABLES
    ALPHABET,       \* module global, line 20
    ALPHABET_SIZE,  \* module global, line 21
    pc,             \* "idle" | "loop" | "returned" | "raised"
    op,             \* the function of the latest call
    text,           \* its first argument (plaintext / ciphertext / text / key)
    key,            \* its key argument (vigenere_* only)
    n,              \* the argument of int_to_char
    P,              \* local P of vigenere_encrypt, C of vigenere_decrypt
    K,              \* local K
    i,              \* loop index i
    chars,          \* local ciphertext_chars / plaintext_chars
    result,         \* what the call returned or raised
    prev,           \* an earlier completed call, kept by the caller
    link            \* how the latest call's arguments relate to prev

vars == <<ALPHABET, ALPHABET_SIZE, pc, op, text, key, n, P, K, i, chars, result, prev, link>>

\* ----------------------------------------------------------- call results
Return(v) == [kind |-> "return", val |-> v]
Raise(e) == [kind |-> e, val |-> <<>>]
NoResult == [kind |-> "none", val |-> <<>>]
NoCall == [op |-> "none", text |-> <<>>, key |-> <<>>, n |-> 0, result |-> NoResult]

\* ------------------------------------------------------- str.upper(), line 36
\* Python's str.upper() on one character of the modelled code points
\* (Basic Latin, Latin-1 Supplement, U+0131, U+017F): the full Unicode
\* upper-case mapping, which may give two characters.
upper_char(c) ==
    IF c \in 97..122 THEN <<c - 32>>
    ELSE IF c = 181 THEN <<924>>
    ELSE IF c = 223 THEN <<83, 83>>
    ELSE IF c \in 224..254 /\ c # 247 THEN <<c - 32>>
    ELSE IF c = 255 THEN <<376>>
    ELSE IF c = 305 THEN <<73>>
    ELSE IF c = 383 THEN <<83>>
    ELSE <<c>>

RECURSIVE str_upper(_)
str_upper(s) ==
    IF s = <<>> THEN <<>> ELSE upper_char(Head(s)) \o str_upper(Tail(s))

\* ch in ALPHABET, line 40 (ch is one character)
in_ALPHABET(ch) == \E j \in 1..Len(ALPHABET) : ALPHABET[j] = ch

\* the for loop of normalize_text, lines 37-44
RECURSIVE normalized(_)
normalized(s) ==
    IF s = <<>> THEN <<>>
    ELSE IF in_ALPHABET(Head(s)) THEN <<Head(s)>> \o normalized(Tail(s))
    ELSE normalized(Tail(s))

swapcase_then_filter(t) ==
    LET swap(c) == IF c \in 97..122 THEN c - 32
                   ELSE IF c \in 65..90 THEN c + 32 ELSE c
    IN normalized([j \in 1..Len(t) |-> swap(t[j])])

normalize_text(t) == normalized(str_upper(t))

char_to_int(ch) == ch - ord_A

int_to_char_trunc(m) ==
    (IF m >= 0 THEN m % ALPHABET_SIZE ELSE -((-m) % ALPHABET_SIZE)) + ord_A

int_to_char(m) == (m % ALPHABET_SIZE) + ord_A

normalize_key_unchecked(k) == Return(normalize_text(k))

normalize_key_raw(k) == IF k = <<>> THEN Raise("ValueError") ELSE Return(k)

normalize_key(k) ==
    LET nk == normalize_text(k)
    IN IF nk = <<>> THEN Raise("ValueError") ELSE Return(nk)


\* key_len = len(K), lines 107 and 141
key_len == Len(K)

\* enumerate(P) counts from 0, lines 109 and 143
enumerate_from_stale_i == i

enumerate_start == 0

\* K[i % key_len], lines 111 and 145 (the model's sequences are 1-based)
key_char_shifted(j) == K[((j + 1) % key_len) + 1]

key_char(j) == K[(j % key_len) + 1]

\* c_val, line 112
enc_c_val_no_key(p_val, k_val) == p_val % ALPHABET_SIZE

enc_c_val(p_val, k_val) == (p_val + k_val) % ALPHABET_SIZE

\* p_val, line 146
dec_p_val_swapped(c_val, k_val) == (k_val - c_val) % ALPHABET_SIZE

dec_p_val(c_val, k_val) == (c_val - k_val) % ALPHABET_SIZE

\* ------------------------------------------------------------- the inputs
BoundedSeq(S, m) == UNION {[1..k -> S] : k \in 0..m}

\* 'A' 'Z' 'k' '3' U+00DF
TextChars == {65, 90, 107, 51, 223}
\* 'B' 'z' U+00E9
KeyChars == {66, 122, 233}
\* "123", "!!!", "k3y!!", U+00DF, "key"
ExampleKeys ==
    { <<49, 50, 51>>, <<33, 33, 33>>, <<107, 51, 121, 33, 33>>, <<223>>,
      <<107, 101, 121>> }
\* "Hello, World! 123", "Z\u00e9 z\u00df"
ExampleTexts ==
    { <<72, 101, 108, 108, 111, 44, 32, 87, 111, 114, 108, 100, 33, 32, 49, 50, 51>>,
      <<90, 233, 32, 122, 223>> }
Texts == BoundedSeq(TextChars, MaxTextLen) \cup ExampleTexts
Keys == BoundedSeq(KeyChars, MaxKeyLen) \cup ExampleKeys
\* texts over 'b' 'Z', and the keys "", "B", "Bc"
Texts9 == BoundedSeq({98, 90}, MaxTextLen9)
Keys9 == {<<>>, <<66>>, <<66, 99>>}
Ints == (0 - MaxN)..MaxN

\* ------------------------------------------------------------------- state
Init ==
    /\ ALPHABET = ascii_uppercase
    /\ ALPHABET_SIZE = Len(ascii_uppercase)
    /\ pc = "idle"
    /\ op = "none"
    /\ text = <<>>
    /\ key = <<>>
    /\ n = 0
    /\ P = <<>>
    /\ K = <<>>
    /\ i = 0
    /\ chars = <<>>
    /\ result = NoResult
    /\ prev = NoCall
    /\ link = "fresh"

\* the call that has just completed, as its caller sees it
Done == [op |-> op, text |-> text, key |-> key, n |-> n, result |-> result]

\* what the caller keeps of earlier calls when it makes the next one
Kept(lnk) ==
    IF lnk = "fresh" THEN NoCall ELSE IF lnk = "keep" THEN prev ELSE Done

CanCall == pc \in {"idle", "returned", "raised"}

\* lines 103-107 of vigenere_encrypt, 137-141 of vigenere_decrypt: both
\* normalise the text, then the key, and raise before the locals of the
\* loop exist when the key is rejected
vigenere_enter(f, t, k, lnk) ==
    /\ CanCall
    /\ op' = f
    /\ text' = t
    /\ key' = k
    /\ n' = 0
    /\ prev' = Kept(lnk)
    /\ link' = lnk
    /\ P' = normalize_text(t)
    /\ LET r == normalize_key(k)
       IN IF r.kind = "return"
          THEN /\ K' = r.val
               /\ chars' = <<>>
               /\ i' = enumerate_start
               /\ result' = NoResult
               /\ pc' = "loop"
          ELSE /\ K' = <<>>
               /\ chars' = <<>>
               /\ i' = 0
               /\ result' = r
               /\ pc' = "raised"
    /\ UNCHANGED <<ALPHABET, ALPHABET_SIZE>>

vigenere_encrypt_enter(t, k, lnk) == vigenere_enter("vigenere_encrypt", t, k, lnk)

vigenere_decrypt_enter(t, k, lnk) == vigenere_enter("vigenere_decrypt", t, k, lnk)

\* one iteration of the loop of vigenere_encrypt, lines 109-114
vigenere_encrypt_step ==
    /\ pc = "loop"
    /\ op = "vigenere_encrypt"
    /\ i < Len(P)
    /\ IF key_len = 0
       THEN /\ pc' = "raised"
            /\ result' = Raise("ZeroDivisionError")
            /\ UNCHANGED <<chars, i>>
       ELSE /\ LET ch == P[i + 1]
                   p_val == char_to_int(ch)
                   k_val == char_to_int(key_char(i))
                   c_val == enc_c_val(p_val, k_val)
                   c_ch == int_to_char(c_val)
               IN chars' = Append(chars, c_ch)
            /\ i' = i + 1
            /\ UNCHANGED <<pc, result>>
    /\ UNCHANGED <<ALPHABET, ALPHABET_SIZE, op, text, key, n, P, K, prev, link>>

\* line 116
vigenere_encrypt_return ==
    /\ pc = "loop"
    /\ op = "vigenere_encrypt"
    /\ i >= Len(P)
    /\ result' = Return(chars)
    /\ pc' = "returned"
    /\ UNCHANGED <<ALPHABET, ALPHABET_SIZE, op, text, key, n, P, K, i, chars, prev, link>>

\* one iteration of the loop of vigenere_decrypt, lines 143-148
vigenere_decrypt_step ==
    /\ pc = "loop"
    /\ op = "vigenere_decrypt"
    /\ i < Len(P)
    /\ IF key_len = 0
       THEN /\ pc' = "raised"
            /\ result' = Raise("ZeroDivisionError")
            /\ UNCHANGED <<chars, i>>
       ELSE /\ LET ch == P[i + 1]
                   c_val == char_to_int(ch)
                   k_val == char_to_int(key_char(i))
                   p_val == dec_p_val(c_val, k_val)
                   p_ch == int_to_char(p_val)
               IN chars' = Append(chars, p_ch)
            /\ i' = i + 1
            /\ UNCHANGED <<pc, result>>
    /\ UNCHANGED <<ALPHABET, ALPHABET_SIZE, op, text, key, n, P, K, prev, link>>

\* line 150
vigenere_decrypt_return ==
    /\ pc = "loop"
    /\ op = "vigenere_decrypt"
    /\ i >= Len(P)
    /\ result' = Return(chars)
    /\ pc' = "returned"
    /\ UNCHANGED <<ALPHABET, ALPHABET_SIZE, op, text, key, n, P, K, i, chars, prev, link>>

\* a call of one of the helpers, which has no step a caller can observe
helper_call(f, t, m, r, lnk) ==
    /\ CanCall
    /\ op' = f
    /\ text' = t
    /\ key' = <<>>
    /\ n' = m
    /\ prev' = Kept(lnk)
    /\ link' = lnk
    /\ P' = <<>>
    /\ K' = <<>>
    /\ i' = 0
    /\ chars' = <<>>
    /\ result' = r
    /\ pc' = IF r.kind = "return" THEN "returned" ELSE "raised"
    /\ UNCHANGED <<ALPHABET, ALPHABET_SIZE>>

normalize_text_call(t, lnk) ==
    helper_call("normalize_text", t, 0, Return(normalize_text(t)), lnk)

normalize_key_call(k) ==
    helper_call("normalize_key", k, 0, normalize_key(k), "fresh")

char_to_int_call(ch) ==
    helper_call("char_to_int", <<ch>>, 0, Return(<<char_to_int(ch)>>), "fresh")

int_to_char_call(m, lnk) ==
    helper_call("int_to_char", <<>>, m, Return(<<int_to_char(m)>>), lnk)

\* ----------------------------------------------------------- the callers
\* A caller that keeps nothing of a completed call: its frame is gone and
\* the next call starts from the state after import.
\* (a caller that keeps results is Next9's)
caller_drops_result ==
    /\ pc \in {"returned", "raised"}
    /\ pc' = "idle"
    /\ op' = "none"
    /\ text' = <<>>
    /\ key' = <<>>
    /\ n' = 0
    /\ P' = <<>>
    /\ K' = <<>>
    /\ i' = 0
    /\ chars' = <<>>
    /\ result' = NoResult
    /\ prev' = NoCall
    /\ link' = "fresh"
    /\ UNCHANGED <<ALPHABET, ALPHABET_SIZE>>

CallEncrypt ==
    /\ pc = "idle"
    /\ \E t \in Texts, k \in Keys : vigenere_encrypt_enter(t, k, "fresh")

CallDecrypt ==
    /\ pc = "idle"
    /\ \E t \in Texts, k \in Keys : vigenere_decrypt_enter(t, k, "fresh")

CallNormalizeText ==
    /\ pc = "idle"
    /\ \E t \in Texts : normalize_text_call(t, "fresh")

CallNormalizeKey ==
    /\ pc = "idle"
    /\ \E k \in Keys : normalize_key_call(k)

\* char_to_int is called with a member of ALPHABET only (its docstring)
CallCharToInt ==
    /\ pc = "idle"
    /\ \E j \in 1..Len(ALPHABET) : char_to_int_call(ALPHABET[j])

CallIntToChar ==
    /\ pc = "idle"
    /\ \E m \in Ints : int_to_char_call(m, "fresh")

\* the main block, lines 165-168: decrypt what encrypt returned, same key
main_decrypt_cifrado ==
    /\ pc = "returned"
    /\ op = "vigenere_encrypt"
    /\ link = "fresh"
    /\ vigenere_decrypt_enter(result.val, key, "roundtrip")

\* encrypt the same text again, the key given already normalised
encrypt_normalized_key ==
    /\ pc = "returned"
    /\ op = "vigenere_encrypt"
    /\ link = "fresh"
    /\ vigenere_encrypt_enter(text, normalize_text(key), "normkey")

\* normalise what normalize_text returned
normalize_text_again ==
    /\ pc = "returned"
    /\ op = "normalize_text"
    /\ link = "fresh"
    /\ normalize_text_call(result.val, "again")

\* the letter of the number char_to_int returned
int_to_char_of_char_to_int ==
    /\ pc = "returned"
    /\ op = "char_to_int"
    /\ int_to_char_call(result.val[1], "inverse")

Next ==
    \/ CallEncrypt
    \/ CallDecrypt
    \/ CallNormalizeText
    \/ CallNormalizeKey
    \/ CallCharToInt
    \/ CallIntToChar
    \/ main_decrypt_cifrado
    \/ encrypt_normalized_key
    \/ normalize_text_again
    \/ int_to_char_of_char_to_int
    \/ caller_drops_result
    \/ vigenere_encrypt_step
    \/ vigenere_encrypt_return
    \/ vigenere_decrypt_step
    \/ vigenere_decrypt_return

Spec == Init /\ [][Next]_vars

\* any sequence of encrypt and decrypt calls, the caller keeping the record
\* of one earlier call ("memo" takes the call just completed, "keep" keeps
\* the one it has)
CallEncrypt9 ==
    \E t \in Texts9, k \in Keys9, lnk \in {"memo", "keep"} :
        vigenere_encrypt_enter(t, k, lnk)

CallDecrypt9 ==
    \E t \in Texts9, k \in Keys9, lnk \in {"memo", "keep"} :
        vigenere_decrypt_enter(t, k, lnk)

Next9 ==
    \/ CallEncrypt9
    \/ CallDecrypt9
    \/ vigenere_encrypt_step
    \/ vigenere_encrypt_return
    \/ vigenere_decrypt_step
    \/ vigenere_decrypt_return

Spec9 == Init /\ [][Next9]_vars


\* =================================================================== claims
\* the letter whose index in the alphabet A=0 .. Z=25 is x
Letter(x) == ascii_uppercase[x + 1]
\* the index of an upper-case letter
Index(c) == c - 65
IsUpperLatin(c) == c \in 65..90
\* x mod 26 as the residue in 0..25
Residue(x) == CHOOSE r \in 0..25 : \E q \in (0 - MaxN - 2)..(MaxN + 2) : x = 26 * q + r
Completed == pc \in {"returned", "raised"}

\* C1: decrypting, with the same key, what encrypt returned for X gives
\* normalize_text(X), for every X and every key with a non-empty normalisation.
C1_RoundTrip ==
    (op = "vigenere_decrypt" /\ link = "roundtrip" /\ Completed) =>
        /\ prev.op = "vigenere_encrypt"
        /\ prev.key = key
        /\ text = prev.result.val
        /\ result = Return(normalize_text(prev.text))

C1_Witness ==
    /\ op = "vigenere_decrypt" /\ link = "roundtrip" /\ pc = "returned"
    /\ prev.text = <<90, 233, 32, 122, 223>>
    /\ key = <<122, 66>>
    /\ result.val = <<90, 90, 83, 83>>

\* C2: vigenere_encrypt returns exactly len(normalize_text(X)) symbols, the
\* i-th being the letter of index (index(P[i]) + index(K[i mod |K|])) mod 26
\* with P, K the normalised text and key; no character of X passes through.
C2_EncryptFormula ==
    (op = "vigenere_encrypt" /\ pc = "returned") =>
        LET Pn == normalize_text(text)
            Kn == normalize_text(key)
        IN /\ result.kind = "return"
           /\ Kn # <<>>
           /\ Len(result.val) = Len(Pn)
           /\ \A j \in 1..Len(Pn) :
                 /\ IsUpperLatin(result.val[j])
                 /\ result.val[j] =
                       Letter(Residue(Index(Pn[j]) + Index(Kn[((j - 1) % Len(Kn)) + 1])))

\* "Hello, World! 123" under "key" gives "RIJVSUYVJN"
C2_Witness ==
    /\ op = "vigenere_encrypt" /\ pc = "returned"
    /\ Len(text) = 17
    /\ key = <<107, 101, 121>>
    /\ result.val = <<82, 73, 74, 86, 83, 85, 89, 86, 74, 78>>

\* C3: vigenere_decrypt returns at each position i of C = normalize_text(Y)
\* the letter of index (index(C[i]) - index(K[i mod |K|])) mod 26, the
\* residue in 0..25 also when the difference is negative; every output
\* symbol is in A..Z.
C3_DecryptFormula ==
    (op = "vigenere_decrypt" /\ pc = "returned") =>
        LET Cn == normalize_text(text)
            Kn == normalize_text(key)
        IN /\ result.kind = "return"
           /\ Kn # <<>>
           /\ Len(result.val) = Len(Cn)
           /\ \A j \in 1..Len(Cn) :
                 /\ IsUpperLatin(result.val[j])
                 /\ result.val[j] =
                       Letter(Residue(Index(Cn[j]) - Index(Kn[((j - 1) % Len(Kn)) + 1])))

\* index('A') - index('Z') is -25: decrypting "Ak" under "z" gives "BL"
C3_Witness ==
    /\ op = "vigenere_decrypt" /\ pc = "returned" /\ link = "fresh"
    /\ text = <<65, 107>>
    /\ key = <<122>>
    /\ result.val = <<66, 76>>

\* C4: normalize_key raises exactly when normalize_text(key) is empty
\* ("", "123", "!!!") and otherwise returns normalize_text(key) ("k3y!!"
\* gives "KY"), a non-empty sequence over A..Z.
C4_NormalizeKey ==
    (op = "normalize_key" /\ Completed) =>
        /\ (pc = "raised") <=> (normalize_text(text) = <<>>)
        /\ (pc = "raised") => (result = Raise("ValueError"))
        /\ (pc = "returned") =>
              /\ result = Return(normalize_text(text))
              /\ Len(result.val) >= 1
              /\ \A j \in 1..Len(result.val) : IsUpperLatin(result.val[j])
        /\ (text \in {<<>>, <<49, 50, 51>>, <<33, 33, 33>>}) => (pc = "raised")
        /\ (text = <<107, 51, 121, 33, 33>>) => (result = Return(<<75, 89>>))

C4_Witness ==
    /\ op = "normalize_key" /\ pc = "raised"
    /\ text = <<49, 50, 51>>
    /\ result.kind = "ValueError"

\* C5: with a key whose normalisation is empty, vigenere_encrypt and
\* vigenere_decrypt raise before any symbol is transformed and return
\* nothing, whatever the text; with any other key they never raise.
C5_InvalidKeyFirst ==
    (op \in {"vigenere_encrypt", "vigenere_decrypt"}) =>
        IF normalize_text(key) = <<>>
        THEN /\ pc = "raised"
             /\ result = Raise("ValueError")
             /\ chars = <<>>
             /\ i = 0
        ELSE /\ pc # "raised"
             /\ result.kind \in {"none", "return"}

C5_Witness ==
    /\ op = "vigenere_encrypt" /\ pc = "raised"
    /\ text = <<65, 90>>
    /\ key = <<233>>
    /\ result.kind = "ValueError"

\* the Latin letters of a text, upper-cased, in order
RECURSIVE LatinLetters(_)
LatinLetters(t) ==
    IF t = <<>> THEN <<>>
    ELSE IF Head(t) \in 65..90 THEN <<Head(t)>> \o LatinLetters(Tail(t))
    ELSE IF Head(t) \in 97..122 THEN <<Head(t) - 32>> \o LatinLetters(Tail(t))
    ELSE LatinLetters(Tail(t))

\* C6: normalize_text never fails and returns exactly the letters of X of
\* the 26-letter Latin alphabet, upper-cased, in order; every other
\* character contributes nothing, so the output is over A..Z and no longer
\* than X.
C6_OnlyLatinLetters ==
    (op = "normalize_text" /\ pc # "idle") =>
        /\ pc = "returned"
        /\ result = Return(LatinLetters(text))
        /\ Len(result.val) <= Len(text)
        /\ \A j \in 1..Len(result.val) : IsUpperLatin(result.val[j])

\* C7: normalising what normalize_text returned gives it back unchanged.
C7_Idempotent ==
    (op = "normalize_text" /\ link = "again" /\ Completed) =>
        /\ prev.op = "normalize_text"
        /\ text = prev.result.val
        /\ result = prev.result

C7_Witness ==
    /\ op = "normalize_text" /\ link = "again" /\ pc = "returned"
    /\ prev.text = <<107, 51>>
    /\ result.val = <<75>>

\* C8: encrypting X with key K and with key normalize_text(K) gives the
\* same result, for every K with a non-empty normalisation.
C8_KeyNormalizationEquivalence ==
    (op = "vigenere_encrypt" /\ link = "normkey" /\ Completed) =>
        /\ prev.op = "vigenere_encrypt"
        /\ text = prev.text
        /\ key = normalize_text(prev.key)
        /\ result = prev.result

C8_Witness ==
    /\ op = "vigenere_encrypt" /\ link = "normkey" /\ pc = "returned"
    /\ prev.key = <<107, 51, 121, 33, 33>>
    /\ key = <<75, 89>>
    /\ Len(result.val) = 2

\* C9: in any sequence of encrypt and decrypt calls, a call's result depends
\* on its two arguments only: every call starts its key stream at key
\* index 0, no call changes the alphabet, and a call with the arguments of
\* an earlier call gives that call's result.
C9_CallsAreIndependent ==
    /\ ALPHABET = ascii_uppercase
    /\ ALPHABET_SIZE = 26
    /\ (pc = "loop") => (i = Len(chars))
    /\ (Completed /\ prev.op = op /\ prev.text = text /\ prev.key = key) =>
          (prev.result = result)

C9_Witness ==
    /\ pc = "returned" /\ link = "keep"
    /\ prev.op = op /\ prev.text = text /\ prev.key = key
    /\ op = "vigenere_encrypt"
    /\ text = <<90, 98>>
    /\ key = <<66, 99>>
    /\ result.val = <<65, 68>>

\* C10: int_to_char is total over the integers and returns the alphabet
\* symbol at index n mod 26, the residue in 0..25; so it inverts
\* char_to_int on A..Z and int_to_char(n) = int_to_char(n + 26).
C10_IntToChar ==
    (op = "int_to_char" /\ pc # "idle") =>
        /\ result = Return(<<ALPHABET[Residue(n) + 1]>>)
        /\ int_to_char(n + 26) = result.val[1]
        /\ (link = "inverse") => (result.val = prev.text)

C10_Witness ==
    /\ op = "int_to_char" /\ pc = "returned"
    /\ n = 0 - 27
    /\ result.val = <<90>>

====
